---------------------------- MODULE Spec2Model ----------------------------
(***************************************************************************)
(* A model of AAPLTracker's main.py: the fulfilment-payload normalizer     *)
(* iter_availability, the catalog resolution resolve_model_queries, the    *)
(* request builder build_url and the orchestration loop of main.           *)
(*                                                                         *)
(* Python values are tagged records [kind, val].  A str is a sequence of   *)
(* one-character strings, a list a sequence of values, a dict a sequence   *)
(* of <<key, value>> pairs in insertion order with unique keys (what       *)
(* json.load builds), None has kind "None".  An exception leaving an       *)
(* expression is the value RaiseV.  The --show-raw switch and the text of  *)
(* the printed lines only write to stdout and are left out: printed[i]     *)
(* holds the records whose lines were written for queries[i].              *)
(***************************************************************************)
EXTENDS Integers, Sequences, FiniteSets, TLC

VARIABLES
    \* ---- main(): inputs
    args,               \* parsed command line: models, parts, retry
    DEFAULT_MODELS,     \* the catalog (never modified)
    \* ---- main(): locals
    pc,                 \* position in main
    queries,            \* resolve_model_queries(args.models)
    cli_parts,          \* list(args.parts) if args.parts else []
    qi,                 \* index of the current query in queries (1-based)
    retries_remaining,
    payload,
    query_parts,
    requested_parts,
    \* ---- main(): observable effects
    last_fetch,         \* outcome of the latest client.fetch call
    url_params,         \* params built by build_url for the latest fetch
    attempts,           \* attempts[i]: client.fetch calls made for queries[i]
    failures,           \* failures[i]: client.fetch calls for queries[i] that raised
    sleeps,             \* sleeps[i]: total time.sleep seconds for queries[i]
    stage,              \* stage[i]: how far queries[i] got
    normalized,         \* normalized[i]: iter_availability was run for queries[i]
    printed,            \* printed[i]: the records presented for queries[i]
    exit_status,        \* process exit status once pc = "exit"
    \* ---- iter_availability called on its own
    n_pc,               \* "input" before the call, "done" after it
    n_payload,          \* the payload argument
    n_filter,           \* the part_filter argument
    n_result            \* list(iter_availability(...)), or the raise

main_vars == <<args, DEFAULT_MODELS, pc, queries, cli_parts, qi, retries_remaining,
               payload, query_parts, requested_parts, last_fetch, url_params,
               attempts, failures, sleeps, stage, normalized, printed, exit_status>>
norm_vars == <<n_pc, n_payload, n_filter, n_result>>
vars == <<main_vars, norm_vars>>

-----------------------------------------------------------------------------
(* String literals of the source, as character sequences.                  *)

K_body == <<"b", "o", "d", "y">>
K_content == <<"c", "o", "n", "t", "e", "n", "t">>
K_pickupMessage == <<"p", "i", "c", "k", "u", "p", "M", "e", "s", "s", "a", "g", "e">>
K_stores == <<"s", "t", "o", "r", "e", "s">>
K_storeName == <<"s", "t", "o", "r", "e", "N", "a", "m", "e">>
K_retailStoreName == <<"r", "e", "t", "a", "i", "l", "S", "t", "o", "r", "e", "N", "a", "m", "e">>
K_storeNumber == <<"s", "t", "o", "r", "e", "N", "u", "m", "b", "e", "r">>
K_city == <<"c", "i", "t", "y">>
K_address == <<"a", "d", "d", "r", "e", "s", "s">>
K_partsAvailability == <<"p", "a", "r", "t", "s", "A", "v", "a", "i", "l", "a", "b", "i", "l", "i", "t", "y">>
K_pickupDisplay == <<"p", "i", "c", "k", "u", "p", "D", "i", "s", "p", "l", "a", "y">>
K_storePickupLabel == <<"s", "t", "o", "r", "e", "P", "i", "c", "k", "u", "p", "L", "a", "b", "e", "l">>
K_pickupSearchQuote == <<"p", "i", "c", "k", "u", "p", "S", "e", "a", "r", "c", "h", "Q", "u", "o", "t", "e">>
K_storePickupQuote == <<"s", "t", "o", "r", "e", "P", "i", "c", "k", "u", "p", "Q", "u", "o", "t", "e">>
K_productAvailabilityText == <<"p", "r", "o", "d", "u", "c", "t", "A", "v", "a", "i", "l", "a", "b", "i", "l", "i", "t", "y", "T", "e", "x", "t">>
K_storePickupQuoteShort == <<"s", "t", "o", "r", "e", "P", "i", "c", "k", "u", "p", "Q", "u", "o", "t", "e", "S", "h", "o", "r", "t">>
K_storePickupProductTitle == <<"s", "t", "o", "r", "e", "P", "i", "c", "k", "u", "p", "P", "r", "o", "d", "u", "c", "t", "T", "i", "t", "l", "e">>
K_title == <<"t", "i", "t", "l", "e">>
STR_unknown == <<"u", "n", "k", "n", "o", "w", "n">>
STR_UnknownStore == <<"U", "n", "k", "n", "o", "w", "n", " ", "s", "t", "o", "r", "e">>
STR_not == <<"n", "o", "t">>
STR_unavailable == <<"u", "n", "a", "v", "a", "i", "l", "a", "b", "l", "e">>
STR_available == <<"a", "v", "a", "i", "l", "a", "b", "l", "e">>
STR_availabletoday == <<"a", "v", "a", "i", "l", "a", "b", "l", "e", "t", "o", "d", "a", "y">>
STR_availablesoon == <<"a", "v", "a", "i", "l", "a", "b", "l", "e", "s", "o", "o", "n">>
STR_iPhone17Pro == <<"i", "P", "h", "o", "n", "e", " ", "1", "7", " ", "P", "r", "o">>
STR_iPhone17ProMax == <<"i", "P", "h", "o", "n", "e", " ", "1", "7", " ", "P", "r", "o", " ", "M", "a", "x">>
STR_Beijing == <<"B", "e", "i", "j", "i", "n", "g">>
STR_true == <<"t", "r", "u", "e">>
STR_regular == <<"r", "e", "g", "u", "l", "a", "r">>
STR_True == <<"T", "r", "u", "e">>
STR_False == <<"F", "a", "l", "s", "e">>
STR_None == <<"N", "o", "n", "e">>
P_pl == <<"p", "l">>
P_mt == <<"m", "t">>
P_location == <<"l", "o", "c", "a", "t", "i", "o", "n">>
P_store == <<"s", "t", "o", "r", "e">>
P_search == <<"s", "e", "a", "r", "c", "h">>
P_partsDot == <<"p", "a", "r", "t", "s", ".">>
UpperChars == <<"A", "B", "C", "D", "E", "F", "G", "H", "I", "J", "K", "L", "M", "N", "O", "P", "Q", "R", "S", "T", "U", "V", "W", "X", "Y", "Z">>
LowerChars == <<"a", "b", "c", "d", "e", "f", "g", "h", "i", "j", "k", "l", "m", "n", "o", "p", "q", "r", "s", "t", "u", "v", "w", "x", "y", "z">>
DigitChars == <<"0", "1", "2", "3", "4", "5", "6", "7", "8", "9">>

-----------------------------------------------------------------------------
(* Python values and the built-ins the source uses on them.                *)

NoneV == [kind |-> "None", val |-> <<>>]
RaiseV == [kind |-> "raise", val |-> <<>>]
PyStrV(s) == [kind |-> "str", val |-> s]
PyInt(n) == [kind |-> "int", val |-> n]
PyBool(b) == [kind |-> "bool", val |-> b]
PyList(s) == [kind |-> "list", val |-> s]
PyDict(s) == [kind |-> "dict", val |-> s]
PySet(s) == [kind |-> "set", val |-> s]
EmptyDict == PyDict(<<>>)
EmptyList == PyList(<<>>)

\* isinstance(v, dict)
IsDict(v) == v.kind = "dict"

\* isinstance(v, Iterable)
IsIterable(v) == v.kind \in {"list", "str", "dict", "set"}

\* bool(v)
Truthy(v) ==
    CASE v.kind = "None" -> FALSE
      [] v.kind = "bool" -> v.val
      [] v.kind = "int" -> v.val # 0
      [] v.kind = "set" -> v.val # {}
      [] v.kind \in {"str", "list", "dict"} -> Len(v.val) > 0

\* a or b
PyOr(a, b) == IF Truthy(a) THEN a ELSE b

\* d[k] if k in d else default, for a dict d
DictGet(d, k, default) ==
    IF \E i \in 1..Len(d.val) : d.val[i][1] = k
    THEN d.val[CHOOSE i \in 1..Len(d.val) : d.val[i][1] = k][2]
    ELSE default

\* v.get(k, default): AttributeError unless v is a dict; an exception raised
\* while computing v propagates.
MethodGet(v, k, default) ==
    IF v.kind = "raise" THEN v
    ELSE IF IsDict(v) THEN DictGet(v, k, default)
    ELSE RaiseV

\* the values "for x in v" visits
IterItems(v) ==
    CASE v.kind = "list" -> v.val
      [] v.kind = "str" -> [i \in 1..Len(v.val) |-> PyStrV(<<v.val[i]>>)]
      [] v.kind = "dict" -> [i \in 1..Len(v.val) |-> PyStrV(v.val[i][1])]

RECURSIVE Decimal(_)
\* the decimal digits of a natural number
Decimal(n) ==
    IF n < 10 THEN <<DigitChars[n + 1]>>
    ELSE Decimal(n \div 10) \o <<DigitChars[(n % 10) + 1]>>

\* str(v), for the scalar values
PyStr(v) ==
    CASE v.kind = "str" -> v.val
      [] v.kind = "int" -> IF v.val < 0 THEN <<"-">> \o Decimal(-v.val) ELSE Decimal(v.val)
      [] v.kind = "bool" -> IF v.val THEN STR_True ELSE STR_False
      [] v.kind = "None" -> STR_None

\* str(v) if v is not None else None
StrOrNone(v) == IF v = NoneV THEN NoneV ELSE PyStrV(PyStr(v))

LowerChar(c) ==
    IF \E i \in 1..Len(UpperChars) : UpperChars[i] = c
    THEN LowerChars[CHOOSE i \in 1..Len(UpperChars) : UpperChars[i] = c]
    ELSE c

\* s.lower()
Lower(s) == [i \in 1..Len(s) |-> LowerChar(s[i])]

\* s.replace(c, "") for a one-character c
RemoveChar(s, c) == SelectSeq(s, LAMBDA x : x # c)

\* sub in s
Contains(s, sub) ==
    \E i \in 1..(Len(s) - Len(sub) + 1) : SubSeq(s, i, i + Len(sub) - 1) = sub

-----------------------------------------------------------------------------
(* iter_availability                                                       *)

\* the descent to the stores list
StoresOf(p) ==
    MethodGet(MethodGet(MethodGet(MethodGet(p, K_body, EmptyDict),
                                  K_content, EmptyDict),
                        K_pickupMessage, EmptyDict),
              K_stores, EmptyList)

\* city = store.get("city") or store.get("address", {}).get("city")
\*            if isinstance(store.get("address"), dict) else None
\* (the conditional expression binds weaker than "or")
StoreCity(store) ==
    IF IsDict(DictGet(store, K_address, NoneV))
    THEN PyOr(DictGet(store, K_city, NoneV),
              MethodGet(DictGet(store, K_address, EmptyDict), K_city, NoneV))
    ELSE NoneV

\* normalized_status = status.replace(" ", "")
NormalizedStatus(status) == RemoveChar(status, " ")

\* the pickup_available of a lowercased status
PickupAvailable(status) ==
    LET normalized_status == NormalizedStatus(status)
        pickup_available ==
            normalized_status \in {STR_available, STR_availabletoday, STR_availablesoon}
    IN  IF Contains(status, STR_not) \/ Contains(status, STR_unavailable)
        THEN FALSE
        ELSE pickup_available

\* the AvailabilityRecord yielded for one (store, part) pair
AvailabilityRecord(model_label, store_name, store_number, city, part_number, info) ==
    LET status_raw == PyOr(PyOr(DictGet(info, K_pickupDisplay, NoneV),
                                DictGet(info, K_storePickupLabel, NoneV)),
                           PyStrV(STR_unknown))
        status == Lower(PyStr(status_raw))
        message == PyOr(PyOr(PyOr(DictGet(info, K_pickupSearchQuote, NoneV),
                                  DictGet(info, K_storePickupQuote, NoneV)),
                             DictGet(info, K_productAvailabilityText, NoneV)),
                        DictGet(info, K_storePickupQuoteShort, NoneV))
        title == PyOr(DictGet(info, K_storePickupProductTitle, NoneV),
                      DictGet(info, K_title, NoneV))
    IN  [ model_label |-> model_label,
          store_name |-> store_name,
          store_number |-> StrOrNone(store_number),
          city |-> StrOrNone(city),
          part_number |-> PyStr(PyStrV(part_number)),
          product_title |-> StrOrNone(title),
          pickup_status |-> status,
          pickup_available |-> PickupAvailable(status),
          pickup_quote |-> StrOrNone(message) ]

\* if part_filter and part_number not in part_filter: continue
FilteredOut(part_filter, part_number) ==
    Truthy(part_filter) /\ part_number \notin part_filter.val

RECURSIVE PartsRecords(_, _, _, _, _, _)
\* the loop over parts_availability.items()
PartsRecords(items, model_label, part_filter, store_name, store_number, city) ==
    IF items = <<>> THEN <<>>
    ELSE LET part_number == Head(items)[1]
             info == Head(items)[2]
             rest == PartsRecords(Tail(items), model_label, part_filter,
                                  store_name, store_number, city)
         IN  IF FilteredOut(part_filter, part_number) THEN rest
             ELSE IF ~IsDict(info) THEN rest
             ELSE <<AvailabilityRecord(model_label, store_name, store_number,
                                       city, part_number, info)>> \o rest

\* the body of "for store in stores" for one store
StoreRecords(store, model_label, part_filter) ==
    IF ~IsDict(store) THEN <<>>
    ELSE LET store_name ==
                 PyStr(PyOr(PyOr(DictGet(store, K_storeName, NoneV),
                                 DictGet(store, K_retailStoreName, NoneV)),
                            PyStrV(STR_UnknownStore)))
             store_number == DictGet(store, K_storeNumber, NoneV)
             city == StoreCity(store)
             parts_availability == DictGet(store, K_partsAvailability, EmptyDict)
         IN  IF ~IsDict(parts_availability) THEN <<>>
             ELSE PartsRecords(parts_availability.val, model_label, part_filter,
                               store_name, store_number, city)

RECURSIVE StoresRecords(_, _, _)
\* the loop over stores
StoresRecords(items, model_label, part_filter) ==
    IF items = <<>> THEN <<>>
    ELSE StoreRecords(Head(items), model_label, part_filter)
         \o StoresRecords(Tail(items), model_label, part_filter)

\* list(iter_availability(payload, model_label=..., part_filter=...)):
\* the records, or raised = TRUE when the generator raises AttributeError
iter_availability(p, model_label, part_filter) ==
    LET stores == StoresOf(p)
    IN  IF stores.kind = "raise" THEN [raised |-> TRUE, records |-> <<>>]
        ELSE IF ~IsIterable(stores) THEN [raised |-> FALSE, records |-> <<>>]
        ELSE [raised |-> FALSE,
              records |-> StoresRecords(IterItems(stores), model_label, part_filter)]

-----------------------------------------------------------------------------
(* resolve_model_queries, build_url and the part-list arithmetic of main   *)

\* ModelQuery(label=..., search_term=..., part_numbers=...)
ModelQuery(label, search_term, part_numbers) ==
    [label |-> label, search_term |-> search_term, part_numbers |-> part_numbers]

\* label_to_model[label]
LabelToModel(label) ==
    DEFAULT_MODELS[CHOOSE i \in 1..Len(DEFAULT_MODELS) :
                      /\ DEFAULT_MODELS[i].label = label
                      /\ \A j \in (i + 1)..Len(DEFAULT_MODELS) :
                            DEFAULT_MODELS[j].label # label]

resolve_model_queries(selected_labels) ==
    IF ~Truthy(selected_labels) THEN DEFAULT_MODELS
    ELSE [i \in 1..Len(selected_labels.val) |-> LabelToModel(selected_labels.val[i])]

RECURSIVE DictFromKeys(_)
\* list(dict.fromkeys(s)): the keys in first-insertion order
DictFromKeys(s) ==
    IF s = <<>> THEN <<>>
    ELSE LET front == DictFromKeys(SubSeq(s, 1, Len(s) - 1))
             last == s[Len(s)]
         IN  IF \E i \in 1..Len(front) : front[i] = last
             THEN front
             ELSE Append(front, last)

\* requested_parts without the dict.fromkeys pass
RequestedParts_NoDedup(q_parts, c_parts) ==
    IF q_parts \o c_parts = <<>> THEN NoneV ELSE PyList(q_parts \o c_parts)

\* requested_parts: None, or the list of parts passed to client.fetch
RequestedParts(q_parts, c_parts) ==
    LET first == IF q_parts # <<>> THEN PyList(q_parts) ELSE NoneV
    IN  IF c_parts # <<>>
        THEN PyList(DictFromKeys((IF Truthy(first) THEN first.val ELSE <<>>) \o c_parts))
        ELSE first

\* set(s)
SetOf(s) == {s[i] : i \in 1..Len(s)}

\* combined_filter with | where the source has &
CombinedFilter_Union(q_parts, c_parts) ==
    IF q_parts \o c_parts = <<>> THEN NoneV ELSE PySet(SetOf(q_parts) \cup SetOf(c_parts))

\* combined_filter: None, or the set handed to iter_availability
CombinedFilter(q_parts, c_parts) ==
    LET from_query == IF q_parts # <<>> THEN PySet(SetOf(q_parts)) ELSE NoneV
    IN  IF c_parts # <<>>
        THEN IF from_query = NoneV
             THEN PySet(SetOf(c_parts))
             ELSE PySet(from_query.val \cap SetOf(c_parts))
        ELSE from_query

\* the params dict of build_url, in insertion order (urlencode renders it
\* as text and adds nothing to it)
build_url(location, store_code, search_term, parts) ==
    <<  <<P_pl, STR_true>>, <<P_mt, STR_regular>>  >>
    \o (IF Truthy(location) THEN << <<P_location, location.val>> >> ELSE <<>>)
    \o (IF Truthy(store_code) THEN << <<P_store, store_code.val>> >> ELSE <<>>)
    \o (IF Truthy(search_term) THEN << <<P_search, search_term.val>> >> ELSE <<>>)
    \o (IF Truthy(parts)
        THEN [i \in 1..Len(parts.val) |-> <<P_partsDot \o Decimal(i - 1), parts.val[i]>>]
        ELSE <<>>)

-----------------------------------------------------------------------------
(* Inputs: the command line, the catalog, and what the endpoint returns    *)

MaxRetry == 1

\* --retry-delay (its default)
RetryDelay == 2

PartA == <<"A">>
PartB == <<"B">>
PartC == <<"C">>
PartNumbers == {PartA, PartB, PartC}

STR_AppleSanlitun == <<"A", "p", "p", "l", "e", " ", "S", "a", "n", "l", "i", "t", "u", "n">>
STR_AppleTaikooLi == <<"A", "p", "p", "l", "e", " ", "T", "a", "i", "k", "o", "o", " ", "L", "i">>
STR_Shanghai == <<"S", "h", "a", "n", "g", "h", "a", "i">>
STR_NotAvailableToday == <<"N", "o", "t", " ", "A", "v", "a", "i", "l", "a", "b", "l", "e", " ", "T", "o", "d", "a", "y">>
STR_AvailableToday == <<"A", "v", "a", "i", "l", "a", "b", "l", "e", " ", "T", "o", "d", "a", "y">>
STR_R320 == <<"R", "3", "2", "0">>
STR_junk == <<"j", "u", "n", "k">>

\* the sequences over S of length lo..hi
SeqsOf(S, lo, hi) == UNION {[1..k -> S] : k \in lo..hi}

\* The catalog.  The shipped DEFAULT_MODELS gives neither variant fixed part
\* numbers; ModelQuery.part_numbers is Sequence[str] | None and main handles
\* both, so the catalog ranges over fixed part lists as well.
CatalogOf(pro_parts, max_parts) ==
    << ModelQuery(STR_iPhone17Pro, STR_iPhone17Pro, pro_parts),
       ModelQuery(STR_iPhone17ProMax, STR_iPhone17ProMax, max_parts) >>

Catalogs ==
    { CatalogOf(NoneV, NoneV),
      CatalogOf(PyList(<<PartA, PartB>>), NoneV),
      CatalogOf(PyList(<<PartA, PartB>>), PyList(<<PartC>>)) }

\* args.models: None, or the --model values in the order given
ModelsChoices ==
    { NoneV,
      PyList(<<STR_iPhone17ProMax>>),
      PyList(<<STR_iPhone17ProMax, STR_iPhone17Pro>>),
      PyList(<<STR_iPhone17Pro, STR_iPhone17Pro>>),
      PyList(<<STR_iPhone17ProMax, STR_iPhone17Pro, STR_iPhone17ProMax>>) }

\* args.parts: None, or the --part values in the order given
PartsChoices ==
    { NoneV,
      PyList(<<PartC>>),
      PyList(<<PartB, PartC>>),
      PyList(<<PartB, PartB, PartA>>) }

\* one availability-info object
Info(display) == PyDict(<< <<K_pickupDisplay, PyStrV(display)>> >>)

\* one store object
Store(name, number, parts_availability) ==
    PyDict(<< <<K_storeName, PyStrV(name)>>,
              <<K_storeNumber, PyStrV(number)>>,
              <<K_partsAvailability, parts_availability>> >>)

\* a fulfilment document holding the given stores value
Fulfilment(stores) ==
    PyDict(<< <<K_body,
         PyDict(<< <<K_content,
              PyDict(<< <<K_pickupMessage,
                   PyDict(<< <<K_stores, stores>> >>)>> >>)>> >>)>> >>)

\* what json.load can hand back to main
MainPayloads ==
    { NoneV,
      PyDict(<< <<K_body, NoneV>> >>),
      Fulfilment(PyList(<<
          Store(STR_AppleSanlitun, STR_R320,
                PyDict(<< <<PartA, Info(STR_AvailableToday)>>,
                          <<PartB, Info(STR_NotAvailableToday)>> >>)),
          Store(STR_AppleTaikooLi, STR_junk,
                PyDict(<< <<PartB, Info(STR_AvailableToday)>>,
                          <<PartC, Info(STR_NotAvailableToday)>> >>)) >>)),
      Fulfilment(PyList(<<
          PyStrV(STR_junk),
          Store(STR_AppleSanlitun, STR_R320,
                PyDict(<< <<PartA, PyStrV(STR_junk)>>,
                          <<PartC, Info(STR_AvailableToday)>> >>)) >>)) }

\* the exceptions client.fetch lets out that are not OSError: the
\* RuntimeError of a status other than 200, json.load's JSONDecodeError
UncaughtFetchErrors == {"RuntimeError", "JSONDecodeError"}

-----------------------------------------------------------------------------
(* main                                                                    *)

query == queries[qi]

MainInit ==
    /\ args \in [ models : ModelsChoices,
                  parts : PartsChoices,
                  retry : (-1)..MaxRetry,
                  location : {PyStrV(STR_Beijing)},
                  store_code : {NoneV} ]
    /\ DEFAULT_MODELS \in Catalogs
    /\ pc = "start"
    /\ queries = <<>>
    /\ cli_parts = <<>>
    /\ qi = 0
    /\ retries_remaining = 0
    /\ payload = NoneV
    /\ query_parts = <<>>
    /\ requested_parts = NoneV
    /\ last_fetch = "none"
    /\ url_params = <<>>
    /\ attempts = <<>>
    /\ failures = <<>>
    /\ sleeps = <<>>
    /\ stage = <<>>
    /\ normalized = <<>>
    /\ printed = <<>>
    /\ exit_status = -1

\* parse_args, resolve_model_queries, cli_parts
main_start ==
    /\ pc = "start"
    /\ queries' = resolve_model_queries(args.models)
    /\ cli_parts' = IF Truthy(args.parts) THEN args.parts.val ELSE <<>>
    /\ qi' = 1
    /\ attempts' = [i \in 1..Len(queries') |-> 0]
    /\ failures' = [i \in 1..Len(queries') |-> 0]
    /\ sleeps' = [i \in 1..Len(queries') |-> 0]
    /\ stage' = [i \in 1..Len(queries') |-> "pending"]
    /\ normalized' = [i \in 1..Len(queries') |-> FALSE]
    /\ printed' = [i \in 1..Len(queries') |-> <<>>]
    /\ pc' = "for"
    /\ UNCHANGED <<norm_vars, args, DEFAULT_MODELS, retries_remaining, payload, query_parts,
                   requested_parts, last_fetch, url_params, exit_status>>

\* the head of "for query in queries" up to the while loop
main_for ==
    /\ pc = "for"
    /\ qi <= Len(queries)
    /\ retries_remaining' = args.retry + 1
    /\ payload' = NoneV
    /\ query_parts' = IF Truthy(query.part_numbers) THEN query.part_numbers.val ELSE <<>>
    /\ requested_parts' = RequestedParts(query_parts', cli_parts)
    /\ stage' = [stage EXCEPT ![qi] = "started"]
    /\ pc' = "while"
    /\ UNCHANGED <<norm_vars, args, DEFAULT_MODELS, queries, cli_parts, qi, last_fetch,
                   url_params, attempts, failures, sleeps, normalized, printed,
                   exit_status>>

\* the loop is over: return 0
main_return_0 ==
    /\ pc = "for"
    /\ qi > Len(queries)
    /\ pc' = "exit"
    /\ exit_status' = 0
    /\ UNCHANGED <<norm_vars, args, DEFAULT_MODELS, queries, cli_parts, qi, retries_remaining,
                   payload, query_parts, requested_parts, last_fetch, url_params,
                   attempts, failures, sleeps, stage, normalized, printed>>

\* what every client.fetch call does before its outcome is known
FetchCalled ==
    /\ pc = "while"
    /\ retries_remaining > 0
    /\ retries_remaining' = retries_remaining - 1
    /\ url_params' = build_url(args.location, args.store_code,
                               PyStrV(query.search_term), requested_parts)
    /\ attempts' = [attempts EXCEPT ![qi] = @ + 1]

\* client.fetch returns the parsed document: break
main_fetch_ok ==
    /\ FetchCalled
    /\ \E p \in MainPayloads : payload' = p
    /\ last_fetch' = "ok"
    /\ pc' = "after"
    /\ UNCHANGED <<norm_vars, args, DEFAULT_MODELS, queries, cli_parts, qi, query_parts,
                   requested_parts, failures, sleeps, stage, normalized, printed,
                   exit_status>>

\* the attempts left go on after a sleep
OSErrorRetries ==
    /\ sleeps' = [sleeps EXCEPT ![qi] = @ + RetryDelay]
    /\ pc' = "while"
    /\ UNCHANGED <<stage, exit_status>>

\* no attempt is left: the message on stderr and return 1
OSErrorReturns ==
    /\ stage' = [stage EXCEPT ![qi] = "failed"]
    /\ pc' = "exit"
    /\ exit_status' = 1
    /\ UNCHANGED sleeps

\* the same test, off by one: it never holds in the handler
NoAttemptLeft_OffByOne == retries_remaining' < 0

\* if retries_remaining == 0, in the handler
NoAttemptLeft == retries_remaining' = 0

\* client.fetch raises OSError (URLError, HTTPError, a timeout)
main_fetch_OSError ==
    /\ FetchCalled
    /\ last_fetch' = "OSError"
    /\ failures' = [failures EXCEPT ![qi] = @ + 1]
    /\ IF NoAttemptLeft THEN OSErrorReturns ELSE OSErrorRetries
    /\ UNCHANGED <<norm_vars, args, DEFAULT_MODELS, queries, cli_parts, qi, payload, query_parts,
                   requested_parts, normalized, printed>>

\* client.fetch raises something "except OSError" does not catch: the
\* exception leaves main and the interpreter exits with status 1
main_fetch_uncaught ==
    /\ FetchCalled
    /\ \E e \in UncaughtFetchErrors : last_fetch' = e
    /\ failures' = [failures EXCEPT ![qi] = @ + 1]
    /\ stage' = [stage EXCEPT ![qi] = "crashed"]
    /\ pc' = "exit"
    /\ exit_status' = 1
    /\ UNCHANGED <<norm_vars, args, DEFAULT_MODELS, queries, cli_parts, qi, payload, query_parts,
                   requested_parts, sleeps, normalized, printed>>

\* "while retries_remaining > 0" is false
main_while_end ==
    /\ pc = "while"
    /\ ~(retries_remaining > 0)
    /\ pc' = "after"
    /\ UNCHANGED <<norm_vars, args, DEFAULT_MODELS, queries, cli_parts, qi, retries_remaining,
                   payload, query_parts, requested_parts, last_fetch, url_params,
                   attempts, failures, sleeps, stage, normalized, printed, exit_status>>

\* continue: on to the next query
Continue(reached) ==
    /\ stage' = [stage EXCEPT ![qi] = reached]
    /\ qi' = qi + 1
    /\ pc' = "for"
    /\ UNCHANGED <<norm_vars, args, DEFAULT_MODELS, queries, cli_parts, retries_remaining,
                   payload, query_parts, requested_parts, last_fetch, url_params,
                   attempts, failures, sleeps, exit_status>>

\* if payload is None: "No data returned from Apple Store API."
main_no_data ==
    /\ pc = "after"
    /\ payload = NoneV
    /\ Continue("nodata")
    /\ UNCHANGED <<normalized, printed>>

\* if query_parts and not combined_filter, under "if cli_parts"
NoOverlap ==
    /\ cli_parts # <<>>
    /\ query_parts # <<>>
    /\ ~Truthy(CombinedFilter(query_parts, cli_parts))

\* "No overlapping part numbers between the model defaults and --part filter."
main_no_overlap ==
    /\ pc = "after"
    /\ payload # NoneV
    /\ NoOverlap
    /\ Continue("nooverlap")
    /\ UNCHANGED <<normalized, printed>>

\* records = list(iter_availability(payload, ...))
Records ==
    iter_availability(payload, query.label, CombinedFilter(query_parts, cli_parts))

\* iter_availability raises: the exception leaves main, exit status 1
main_normalize_raises ==
    /\ pc = "after"
    /\ payload # NoneV
    /\ ~NoOverlap
    /\ Records.raised
    /\ normalized' = [normalized EXCEPT ![qi] = TRUE]
    /\ stage' = [stage EXCEPT ![qi] = "crashed"]
    /\ pc' = "exit"
    /\ exit_status' = 1
    /\ UNCHANGED <<norm_vars, args, DEFAULT_MODELS, queries, cli_parts, qi, retries_remaining,
                   payload, query_parts, requested_parts, last_fetch, url_params,
                   attempts, failures, sleeps, printed>>

\* if not records: "No stores returned by the API for this query."
main_no_stores ==
    /\ pc = "after"
    /\ payload # NoneV
    /\ ~NoOverlap
    /\ ~Records.raised
    /\ Records.records = <<>>
    /\ normalized' = [normalized EXCEPT ![qi] = TRUE]
    /\ Continue("nostores")
    /\ UNCHANGED printed

\* for record in records: one printed line per record
main_present ==
    /\ pc = "after"
    /\ payload # NoneV
    /\ ~NoOverlap
    /\ ~Records.raised
    /\ Records.records # <<>>
    /\ normalized' = [normalized EXCEPT ![qi] = TRUE]
    /\ printed' = [printed EXCEPT ![qi] = Records.records]
    /\ Continue("presented")

MainNext ==
    \/ main_start
    \/ main_for
    \/ main_return_0
    \/ main_fetch_ok
    \/ main_fetch_OSError
    \/ main_fetch_uncaught
    \/ main_while_end
    \/ main_no_data
    \/ main_no_overlap
    \/ main_normalize_raises
    \/ main_no_stores
    \/ main_present

NormIdle ==
    /\ n_pc = "idle"
    /\ n_payload = NoneV
    /\ n_filter = NoneV
    /\ n_result = [raised |-> FALSE, records |-> <<>>]

Init == MainInit /\ NormIdle

Next == MainNext

Spec == Init /\ [][Next]_vars

-----------------------------------------------------------------------------
(* iter_availability called on its own, over a wider family of payloads    *)

MaxStores == 1
MaxPieces == 3

\* a document nested down to the given depth, holding v under the key of
\* that depth: 1 body, 2 content, 3 pickupMessage, 4 stores
Nested(depth, v) ==
    CASE depth = 4 -> Fulfilment(v)
      [] depth = 3 -> PyDict(<< <<K_body, PyDict(<< <<K_content,
                          PyDict(<< <<K_pickupMessage, v>> >>)>> >>)>> >>)
      [] depth = 2 -> PyDict(<< <<K_body, PyDict(<< <<K_content, v>> >>)>> >>)
      [] depth = 1 -> PyDict(<< <<K_body, v>> >>)

\* a document nested down to the given depth where the key of that depth
\* is missing
NestedMissing(depth) == IF depth = 1 THEN EmptyDict ELSE Nested(depth - 1, EmptyDict)

TwoParts ==
    PyDict(<< <<PartA, Info(STR_AvailableToday)>>,
              <<PartB, Info(STR_NotAvailableToday)>> >>)

\* values that are not a dict, and values that are not a list
NotADict == {NoneV, PyInt(7), PyStrV(STR_junk), PyBool(TRUE), EmptyList}
NotAList == {NoneV, PyInt(7), PyStrV(STR_junk), PyBool(FALSE), EmptyDict,
             PyDict(<< <<K_city, PyStrV(STR_Beijing)>> >>)}

\* documents whose path to the stores list is cut at some level
CutPayloads ==
    {NestedMissing(d) : d \in 1..4}
    \cup {Nested(d, v) : d \in 1..3, v \in NotADict}
    \cup {Nested(4, v) : v \in NotAList}
    \cup {EmptyList, PyStrV(STR_junk)}

\* the store objects: the city field and the address field, each absent or
\* present in several shapes
CityChoices == {<<>>} \cup {<< <<K_city, v>> >> : v \in {NoneV, PyStrV(STR_Beijing)}}
AddressChoices ==
    {<<>>} \cup {<< <<K_address, v>> >> :
                    v \in { NoneV, PyStrV(STR_junk), EmptyDict,
                            PyDict(<< <<K_city, PyStrV(STR_Shanghai)>> >>) }}

StoreChoices ==
    { PyDict(<< <<K_storeName, PyStrV(STR_AppleSanlitun)>> >> \o c \o a
             \o << <<K_partsAvailability, TwoParts>> >>) :
          c \in CityChoices, a \in AddressChoices }
    \cup { PyStrV(STR_junk),
           PyDict(<< <<K_retailStoreName, PyStrV(STR_AppleTaikooLi)>>,
                     <<K_storeNumber, PyInt(320)>>,
                     <<K_partsAvailability, PyList(<<PyStrV(PartA)>>)>> >>) }

StorePayloads == {Fulfilment(PyList(l)) : l \in SeqsOf(StoreChoices, 0, MaxStores)}

\* the status texts: up to MaxPieces pieces one after another
StatusPieces ==
    { STR_available, <<"A", "v", "a", "i", "l", "a", "b", "l", "e">>,
      <<"t", "o", "d", "a", "y">>, <<"s", "o", "o", "n">>,
      <<" ">>, <<"\t">>, STR_not, <<"u", "n">> }

RECURSIVE Joined(_)
\* the pieces of a sequence of pieces, concatenated
Joined(pieces) == IF pieces = <<>> THEN <<>> ELSE Head(pieces) \o Joined(Tail(pieces))

Statuses == {Joined(l) : l \in SeqsOf(StatusPieces, 0, MaxPieces)}

\* the availability-info objects: the status under either of its keys
InfoChoices ==
    {Info(t) : t \in Statuses}
    \cup {PyDict(<< <<K_storePickupLabel, PyStrV(t)>>,
                    <<K_storePickupQuote, PyStrV(STR_junk)>> >>) :
             t \in {STR_AvailableToday, STR_NotAvailableToday}}
    \cup {PyDict(<< <<K_pickupDisplay, PyInt(0)>>, <<K_title, PyInt(17)>> >>)}

StatusPayloads ==
    { Fulfilment(PyList(<< PyDict(<< <<K_storeName, PyStrV(STR_AppleSanlitun)>>,
                                    <<K_city, PyStrV(STR_Beijing)>>,
                                    <<K_partsAvailability, PyDict(<< <<PartA, i>> >>)>> >>) >>)) :
          i \in InfoChoices }

NormPayloads == CutPayloads \cup StorePayloads \cup StatusPayloads

FilterChoices == {NoneV, PySet({PartA})}

NormInit ==
    /\ n_pc = "input"
    /\ n_payload \in NormPayloads
    /\ n_filter \in FilterChoices
    /\ n_result = [raised |-> FALSE, records |-> <<>>]

MainIdle ==
    /\ args = [ models |-> NoneV, parts |-> NoneV, retry |-> 0,
                location |-> PyStrV(STR_Beijing), store_code |-> NoneV ]
    /\ DEFAULT_MODELS = CatalogOf(NoneV, NoneV)
    /\ pc = "idle"
    /\ queries = <<>>
    /\ cli_parts = <<>>
    /\ qi = 0
    /\ retries_remaining = 0
    /\ payload = NoneV
    /\ query_parts = <<>>
    /\ requested_parts = NoneV
    /\ last_fetch = "none"
    /\ url_params = <<>>
    /\ attempts = <<>>
    /\ failures = <<>>
    /\ sleeps = <<>>
    /\ stage = <<>>
    /\ normalized = <<>>
    /\ printed = <<>>
    /\ exit_status = -1

\* list(iter_availability(n_payload, model_label=..., part_filter=n_filter))
norm_call ==
    /\ n_pc = "input"
    /\ n_result' = iter_availability(n_payload, STR_iPhone17Pro, n_filter)
    /\ n_pc' = "done"
    /\ UNCHANGED <<main_vars, n_payload, n_filter>>

InitNorm == NormInit /\ MainIdle

NextNorm == norm_call

SpecNorm == InitNorm /\ [][NextNorm]_vars

-----------------------------------------------------------------------------
(* Vocabulary of the properties                                            *)

\* how a query that was carried through ends
Finished == {"nodata", "nooverlap", "nostores", "presented"}

\* every client.fetch call for queries[n] raised, the last of them being the
\* last attempt the retry count allows
FailedOnLastAttempt(n) ==
    /\ failures[n] >= 1
    /\ failures[n] = attempts[n]
    /\ attempts[n] = args.retry + 1

\* the fixed part numbers of a catalog entry, and the --part values
FixedOf(q) == IF q.part_numbers = NoneV THEN <<>> ELSE q.part_numbers.val
CallerParts == IF args.parts = NoneV THEN <<>> ELSE args.parts.val

\* the position at which x first occurs in s
FirstIndex(s, x) == CHOOSE i \in 1..Len(s) : s[i] = x /\ \A j \in 1..(i - 1) : s[j] # x

\* the parts.<i> parameters of the latest request, and their values
IsPartsKey(k) ==
    Len(k) > Len(P_partsDot) /\ SubSeq(k, 1, Len(P_partsDot)) = P_partsDot
SentPartParams == SelectSeq(url_params, LAMBDA kv : IsPartsKey(kv[1]))
SentParts == [i \in 1..Len(SentPartParams) |-> SentPartParams[i][2]]

\* the stores list of a document, when all four levels are there
HasStoresList(p) ==
    /\ IsDict(p)
    /\ IsDict(DictGet(p, K_body, NoneV))
    /\ IsDict(DictGet(DictGet(p, K_body, NoneV), K_content, NoneV))
    /\ IsDict(DictGet(DictGet(DictGet(p, K_body, NoneV), K_content, NoneV),
                      K_pickupMessage, NoneV))
    /\ DictGet(DictGet(DictGet(DictGet(p, K_body, NoneV), K_content, NoneV),
                       K_pickupMessage, NoneV), K_stores, NoneV).kind = "list"
DocStores(p) ==
    IF HasStoresList(p)
    THEN DictGet(DictGet(DictGet(DictGet(p, K_body, NoneV), K_content, NoneV),
                         K_pickupMessage, NoneV), K_stores, NoneV).val
    ELSE <<>>

\* the post-fetch filter, as the specification words it
Passes(part, fixed, caller) ==
    IF fixed # {} /\ caller # {} THEN part \in fixed /\ part \in caller
    ELSE IF fixed # {} THEN part \in fixed
    ELSE IF caller # {} THEN part \in caller
    ELSE TRUE

\* the parts map of a store object
PartsMap(store) == DictGet(store, K_partsAvailability, EmptyDict)

\* the (store, part) pairs of a document that pass the filter, each as
\* <<position of the store, position of the part in the store's map>>
PassingPairs(p, fixed, caller) ==
    LET stores == DocStores(p)
    IN  UNION { LET parts == PartsMap(stores[i])
                IN  IF ~IsDict(stores[i]) \/ ~IsDict(parts) THEN {}
                    ELSE { <<i, k>> : k \in { k \in 1..Len(parts.val) :
                                                /\ IsDict(parts.val[k][2])
                                                /\ Passes(parts.val[k][1], fixed, caller) } } :
                i \in 1..Len(stores) }

\* the name and part number a pair shows in its record
PairIdentity(p, pair) ==
    LET store == DocStores(p)[pair[1]]
    IN  << DictGet(store, K_storeName, NoneV).val, PartsMap(store).val[pair[2]][1] >>

\* the query whose payload the variable payload still holds once the query
\* is over: the one just continued from, or the one normalization crashed on
Processed ==
    IF pc = "exit" /\ exit_status = 1 THEN qi ELSE qi - 1
PayloadIsOfProcessed ==
    /\ \/ pc = "for"
       \/ pc = "exit" /\ exit_status = 0
       \/ pc = "exit" /\ qi \in 1..Len(stage) /\ stage[qi] = "crashed" /\ normalized[qi]
    /\ Processed \in 1..Len(stage)
    /\ payload # NoneV

\* the position of a label in the catalog
CatalogIndex(label) == CHOOSE i \in 1..Len(DEFAULT_MODELS) : DEFAULT_MODELS[i].label = label

\* the characters str.isspace accepts, among those a status can hold
WhitespaceChars == {" ", "\t", "\n", "\r", "\f"}

\* the city the specification gives a store's records
ExpectedCity(store) ==
    IF DictGet(store, K_city, NoneV) # NoneV
    THEN PyStrV(PyStr(DictGet(store, K_city, NoneV)))
    ELSE IF /\ IsDict(DictGet(store, K_address, NoneV))
            /\ DictGet(DictGet(store, K_address, NoneV), K_city, NoneV) # NoneV
         THEN PyStrV(PyStr(DictGet(DictGet(store, K_address, NoneV), K_city, NoneV)))
         ELSE NoneV

-----------------------------------------------------------------------------
(* The claims                                                              *)

\* C1: when main is over, the exit status is 1 exactly when some variant's
\* fetch failed on every attempt the retry count allows, and 0 otherwise.
C1_ExitStatusClaim ==
    pc = "exit" =>
        /\ exit_status \in {0, 1}
        /\ exit_status = 1 <=> \E n \in 1..Len(stage) : FailedOnLastAttempt(n)

\* C2: with a retry count r >= 0, a failed fetch is followed by another
\* attempt while fewer than r + 1 were made, nothing follows a successful
\* one, at most r + 1 are made, and one RetryDelay is slept between two
\* consecutive attempts and none after the last.
C2_RetryClaim ==
    args.retry >= 0 =>
        \A i \in 1..Len(stage) :
            /\ attempts[i] <= args.retry + 1
            /\ attempts[i] - failures[i] <= 1
            /\ (failures[i] >= 1 /\ failures[i] = attempts[i] /\ attempts[i] < args.retry + 1)
                  => (qi = i /\ pc = "while")
            /\ attempts[i] - failures[i] = 1 => ~(qi = i /\ pc = "while")
            /\ sleeps[i] = RetryDelay * (IF qi = i /\ pc = "while"
                                         THEN attempts[i]
                                         ELSE IF attempts[i] = 0 THEN 0 ELSE attempts[i] - 1)

\* C3: once the fetch of variant n has failed on its last allowed attempt the
\* run is over with status 1, nothing was normalized or presented for n,
\* nothing at all was done for the variants after n, and every variant
\* before n was carried through to its end; at any time, a variant is begun
\* only when all the variants before it are over.
C3_AbortStopsRun ==
    /\ \A n \in 1..Len(stage) :
          FailedOnLastAttempt(n) =>
              /\ pc = "exit" /\ exit_status = 1 /\ qi = n
              /\ \A j \in n..Len(stage) : ~normalized[j] /\ printed[j] = <<>>
              /\ \A j \in (n + 1)..Len(stage) :
                    attempts[j] = 0 /\ sleeps[j] = 0 /\ stage[j] = "pending"
              /\ \A j \in 1..(n - 1) :
                    /\ stage[j] \in Finished
                    /\ stage[j] = "presented" <=> printed[j] # <<>>
    /\ \A j \in 1..Len(stage) :
          (stage[j] # "pending" \/ attempts[j] > 0 \/ normalized[j] \/ printed[j] # <<>>)
              => \A i \in 1..(j - 1) : stage[i] \in Finished

\* C3 witness: of three variants, the second one's fetch failed on the last
\* of several attempts, after the first one's records were presented and
\* with the third one still to come.
C3_Witness ==
    /\ pc = "exit"
    /\ Len(stage) = 3
    /\ FailedOnLastAttempt(2)
    /\ attempts[2] >= 2
    /\ stage[1] = "presented"
    /\ stage[3] = "pending"

\* C6: the parts sent with a fetch are the variant's fixed part numbers
\* followed by the --part values, each once, in first-seen order, as
\* parts.0, parts.1, ...; with neither given, no parts parameter is sent.
C6_RequestedPartsMerged ==
    (pc \in {"while", "after", "exit"} /\ qi \in 1..Len(queries) /\ attempts[qi] >= 1) =>
        LET all == FixedOf(queries[qi]) \o CallerParts
            params == SentPartParams
            sent == SentParts
        IN  /\ SetOf(sent) = SetOf(all)
            /\ \A i, j \in 1..Len(sent) :
                  i < j => /\ sent[i] # sent[j]
                           /\ FirstIndex(all, sent[i]) < FirstIndex(all, sent[j])
            /\ \A i \in 1..Len(params) : params[i][1] = P_partsDot \o Decimal(i - 1)
            /\ requested_parts = IF all = <<>> THEN NoneV ELSE PyList(sent)

\* C6 witness: fixed parts A, B and --part B, C were sent as A, B, C.
C6_Witness ==
    /\ pc = "after"
    /\ FixedOf(queries[qi]) = <<PartA, PartB>>
    /\ CallerParts = <<PartB, PartC>>
    /\ SentParts = <<PartA, PartB, PartC>>

\* C7: for a variant whose fetch returned a document, the records are
\* exactly the (store, part) pairs of the document that pass the filter
\* (the intersection of fixed and --part values when both are given, the
\* one side when one is, everything when none is); when both are given and
\* share nothing, normalization is not run, the no-overlap outcome is
\* reported, no record is produced and the run goes on to the next variant.
C7_RecordsPassFilter ==
    /\ PayloadIsOfProcessed =>
          LET i == Processed
              fixed == SetOf(FixedOf(queries[i]))
              caller == SetOf(CallerParts)
              pairs == PassingPairs(payload, fixed, caller)
          IN  IF fixed # {} /\ caller # {} /\ fixed \cap caller = {}
              THEN /\ stage[i] = "nooverlap"
                   /\ ~normalized[i]
                   /\ printed[i] = <<>>
                   /\ pc # "exit" => (pc = "for" /\ qi = i + 1)
              ELSE /\ stage[i] # "nooverlap"
                   /\ normalized[i]
                   /\ Len(printed[i]) = Cardinality(pairs)
                   /\ { <<printed[i][k].store_name, printed[i][k].part_number>> :
                          k \in 1..Len(printed[i]) }
                        = { PairIdentity(payload, pr) : pr \in pairs }
    /\ \A i \in 1..Len(stage) :
          stage[i] = "nooverlap" => ~normalized[i] /\ printed[i] = <<>> /\ qi > i

\* C7 witness: fixed parts A, B and --part B, C kept exactly the two B
\* records of a document that also lists A and C.
C7_Witness ==
    /\ PayloadIsOfProcessed
    /\ FixedOf(queries[Processed]) = <<PartA, PartB>>
    /\ CallerParts = <<PartB, PartC>>
    /\ Len(printed[Processed]) = 2
    /\ \A k \in 1..2 : printed[Processed][k].part_number = PartB
    /\ Cardinality(PassingPairs(payload, {}, {})) = 4

\* C8: the resolved list holds each requested variant once, in catalog
\* order, and nothing else; with no selection it is the catalog.
C8_ResolveClaim ==
    pc \notin {"start", "idle"} =>
        IF ~Truthy(args.models) THEN queries = DEFAULT_MODELS
        ELSE /\ \A l \in SetOf(args.models.val) :
                   Cardinality({i \in 1..Len(queries) : queries[i].label = l}) = 1
             /\ \A i \in 1..Len(queries) :
                   /\ queries[i].label \in SetOf(args.models.val)
                   /\ queries[i] \in SetOf(DEFAULT_MODELS)
             /\ \A i, j \in 1..Len(queries) :
                   i < j => CatalogIndex(queries[i].label) < CatalogIndex(queries[j].label)

\* C10: whatever the retry count, a variant whose outcome was reported had
\* at least one fetch attempt, and a run that ends with status 0 made one
\* for every variant.
C10_ContactedClaim ==
    /\ \A i \in 1..Len(stage) :
          stage[i] \in Finished \cup {"failed", "crashed"} => attempts[i] >= 1
    /\ (pc = "exit" /\ exit_status = 0) => \A i \in 1..Len(stage) : attempts[i] >= 1

\* C4: iter_availability never raises, and yields no record for a document
\* in which one of body, content, pickupMessage, stores is missing, null or
\* of the wrong kind.
C4_NeverRaisesClaim ==
    (n_pc = "done" /\ IsDict(n_payload)) =>
        /\ ~n_result.raised
        /\ ~HasStoresList(n_payload) => n_result.records = <<>>

\* C5: a record's pickup_available is true exactly when its status,
\* lowercased and with all whitespace removed, is one of "available",
\* "availabletoday", "availablesoon" and the lowercased status contains
\* neither "not" nor "unavailable".
C5_PickupAvailableClaim ==
    n_pc = "done" =>
        \A k \in 1..Len(n_result.records) :
            LET status == n_result.records[k].pickup_status
            IN  n_result.records[k].pickup_available
                <=> /\ SelectSeq(status, LAMBDA c : c \notin WhitespaceChars)
                          \in {STR_available, STR_availabletoday, STR_availablesoon}
                    /\ ~Contains(status, STR_not)
                    /\ ~Contains(status, STR_unavailable)

\* C9: a record's city is the store's direct city when the store has one,
\* else the city of the address object when there is one, else absent;
\* the address field never hides a direct city.
C9_DirectCityClaim ==
    (n_pc = "done" /\ Len(DocStores(n_payload)) = 1 /\ IsDict(DocStores(n_payload)[1])) =>
        \A k \in 1..Len(n_result.records) :
            n_result.records[k].city = ExpectedCity(DocStores(n_payload)[1])
====
